---- MODULE Spec2Model ----
(***************************************************************************)
(* Model of the authentication backend: the verification-code engine       *)
(* (services/verification.rs), the request handlers (handlers/auth.rs),    *)
(* the refresh-token store and the token issuer they call, and the clock.  *)
(*                                                                         *)
(* Every `.await` of a handler is a point where other requests run, so a   *)
(* handler with several store round trips is a process with one action per *)
(* round trip.                                                             *)
(***************************************************************************)
EXTENDS Integers, FiniteSets, Sequences, TLC

(* ---------------------------------------------------------------------- *)
(* Bounds of the model                                                     *)
(* ---------------------------------------------------------------------- *)
MaxCodes == 2
MaxTime == 2
MaxSessions == 2
MaxSessionTime == 3

(* ---------------------------------------------------------------------- *)
(* Configuration, in clock ticks.  The defaults of config.rs are 900 s for *)
(* the code window and the access token and 604800 s for the refresh       *)
(* token; verification.rs retains used codes for 7 days.  The model keeps  *)
(* their order (window <= access lifetime < refresh lifetime, window <     *)
(* retention) on a clock of a few ticks.                                   *)
(* ---------------------------------------------------------------------- *)
verification_code_expiry == 1
access_token_expiry == 2
refresh_token_expiry == 3
CodeRetention == 2

NULL == 0 - 1

Users == {1, 2}
Procs == {1, 2}

(* CodeType and its as_str image *)
CodeType == {"email_verification", "password_reset"}

VARIABLES
    now,          \* the clock (Utc::now())
    users,        \* users table: user id -> [exists, email_verified]
    codes,        \* verification_code table: set of rows
    nextCodeId,   \* next row id / creation stamp of verification_code
    vproc,        \* in-flight verify_code / verify_code_by_email calls
    redeemed      \* history: triples redeemed since their last issuance
                  \* (vproc[p].prior and .late are history too: whether the
                  \* triple was in redeemed, and whether the row read was
                  \* past its expiry, when the call made its SELECT)

VARIABLES
    tokens,       \* refresh_tokens table: set of refresh records
    nextSid,      \* number of session ids drawn so far by login and refresh
    creds,        \* cookies handed to clients: [sid, user, refresh, access]
    blacklist,    \* expiring key-value store: set of [token, until]
    sproc,        \* in-flight refresh / logout requests
    rotations     \* history: <<old, new>> for every rotation committed

VARIABLES
    sweeper,      \* the cleanup task: where its loop stands, its last result
    iproc,        \* in-flight register / resend / forgot_password requests
    responses     \* the HTTP response last rendered for each client

codeVars == <<codes, nextCodeId, vproc, redeemed>>
sessVars == <<tokens, nextSid, creds, blacklist, sproc, rotations>>
auxVars == <<sweeper, iproc, responses>>

vars == <<now, users, codes, nextCodeId, vproc, redeemed,
          tokens, nextSid, creds, blacklist, sproc, rotations,
          sweeper, iproc, responses>>

(* ---------------------------------------------------------------------- *)
(* Rest states of the cleanup task, of an issuance request and of a        *)
(* client that has received no response                                    *)
(* ---------------------------------------------------------------------- *)
IdleSweeper == [pc |-> "waiting", last |-> "none"]

IdleI == [pc |-> "idle", op |-> "none", user |-> NULL, code |-> NULL,
          res |-> "none"]

NoResponse == [err |-> "none", status |-> 0, body |-> "none"]

(* ---------------------------------------------------------------------- *)
(* Users.  The email address of user u is modelled by u itself.            *)
(* ---------------------------------------------------------------------- *)
NoUser == [exists |-> FALSE, email_verified |-> FALSE]

EmailOf(u) == u

(* ---------------------------------------------------------------------- *)
(* Verification-code engine                                                *)
(* ---------------------------------------------------------------------- *)
NoSnap == [id |-> NULL, user_id |-> NULL, expires_at |-> NULL, used_at |-> NULL]

IdleV == [pc |-> "idle", op |-> "none", who |-> NULL, code |-> "none",
          ctype |-> "none", snap |-> NoSnap, prior |-> FALSE, late |-> FALSE,
          res |-> "none"]

Max(S) == CHOOSE x \in S : \A y \in S : y <= x

(* INSERT INTO verification_code (user_id, code, code_type, expires_at);   *)
(* id and created_at are assigned by the table: the creation order is the  *)
(* id order.                                                               *)
NewCode(id, u, c, t, at) ==
    [id |-> id, user_id |-> u, code |-> c, code_type |-> t,
     expires_at |-> at + verification_code_expiry, used_at |-> NULL]

(* SelectByUser without the code_type condition *)
SelectByUserAnyPurpose(tbl, u, c, t) ==
    LET m == {r \in tbl : r.user_id = u /\ r.code = c}
    IN  IF m = {} THEN {} ELSE {CHOOSE r \in m : r.id = Max({x.id : x \in m})}

(* SELECT ... WHERE user_id = $1 AND code = $2 AND code_type = $3          *)
(* ORDER BY created_at DESC LIMIT 1                                        *)
SelectByUser(tbl, u, c, t) ==
    LET m == {r \in tbl : r.user_id = u /\ r.code = c /\ r.code_type = t}
    IN  IF m = {} THEN {} ELSE {CHOOSE r \in m : r.id = Max({x.id : x \in m})}

(* SELECT ... JOIN users u ON u.id = vc.user_id WHERE u.email = $1 ...     *)
SelectByEmail(tbl, usr, e, c, t) ==
    LET m == {r \in tbl : usr[r.user_id].exists /\ EmailOf(r.user_id) = e
                          /\ r.code = c /\ r.code_type = t}
    IN  IF m = {} THEN {} ELSE {CHOOSE r \in m : r.id = Max({x.id : x \in m})}

(* CheckSnapshot without the used_at test *)
CheckSnapshotNoUsed(snap, at) ==
    IF snap.expires_at < at THEN "VerificationCodeExpired" ELSE "pass"

(* CheckSnapshot without the expires_at test *)
CheckSnapshotNoExpiry(snap, at) ==
    IF snap.used_at # NULL THEN "VerificationCodeAlreadyUsed" ELSE "pass"

(* The two checks made on the row that was read.                           *)
CheckSnapshot(snap, at) ==
    IF snap.used_at # NULL THEN "VerificationCodeAlreadyUsed"
    ELSE IF snap.expires_at < at THEN "VerificationCodeExpired"
    ELSE "pass"

(* UPDATE verification_code SET used_at = $1 WHERE id = $2                 *)
MarkUsed(tbl, id, at) ==
    {IF r.id = id THEN [r EXCEPT !.used_at = at] ELSE r : r \in tbl}

(* PurgedCodes that also deletes the rows expiring at this very time *)
PurgedCodesInclusive(tbl, at) ==
    {r \in tbl : ~(r.expires_at <= at
                   \/ (r.used_at # NULL /\ r.used_at < at - CodeRetention))}

(* DELETE FROM verification_code WHERE expires_at < now                    *)
(*    OR (used_at IS NOT NULL AND used_at < now - 7 days)                  *)
PurgedCodes(tbl, at) ==
    {r \in tbl : ~(r.expires_at < at
                   \/ (r.used_at # NULL /\ r.used_at < at - CodeRetention))}

Triple(u, c, t) == <<u, c, t>>

(* create_verification_code: generate_code, then the INSERT                *)
CreateVerificationCode(u, c, t) ==
    /\ nextCodeId <= MaxCodes
    /\ users[u].exists
    /\ codes' = codes \cup {NewCode(nextCodeId, u, c, t, now)}
    /\ redeemed' = redeemed \ {Triple(u, c, t)}
    /\ nextCodeId' = nextCodeId + 1
    /\ UNCHANGED <<now, users, auxVars, vproc, sessVars>>

(* verify_code, first round trip: the SELECT                               *)
VerifyCodeSelect(p, u, c, t) ==
    /\ vproc[p].pc \in {"idle", "done"}
    /\ LET sel == SelectByUser(codes, u, c, t)
           call == [IdleV EXCEPT !.op = "verify_code", !.who = u, !.code = c,
                                 !.ctype = t,
                                 !.prior = (Triple(u, c, t) \in redeemed)]
       IN  IF sel = {}
           THEN vproc' = [vproc EXCEPT ![p] =
                    [call EXCEPT !.pc = "done", !.res = "InvalidVerificationCode"]]
           ELSE \E r \in sel :
                  vproc' = [vproc EXCEPT ![p] =
                    [call EXCEPT !.pc = "selected", !.late = (r.expires_at < now),
                                 !.snap = [id |-> r.id, user_id |-> r.user_id,
                                           expires_at |-> r.expires_at,
                                           used_at |-> r.used_at]]]
    /\ UNCHANGED <<now, users, auxVars, codes, nextCodeId, redeemed, sessVars>>

(* verify_code_by_email, first round trip: the SELECT with the JOIN        *)
VerifyCodeByEmailSelect(p, e, c, t) ==
    /\ vproc[p].pc \in {"idle", "done"}
    /\ LET sel == SelectByEmail(codes, users, e, c, t)
           call == [IdleV EXCEPT !.op = "verify_code_by_email", !.who = e,
                                 !.code = c, !.ctype = t,
                                 !.prior = (Triple(e, c, t) \in redeemed)]
       IN  IF sel = {}
           THEN vproc' = [vproc EXCEPT ![p] =
                    [call EXCEPT !.pc = "done", !.res = "InvalidVerificationCode"]]
           ELSE \E r \in sel :
                  vproc' = [vproc EXCEPT ![p] =
                    [call EXCEPT !.pc = "selected", !.late = (r.expires_at < now),
                                 !.snap = [id |-> r.id, user_id |-> r.user_id,
                                           expires_at |-> r.expires_at,
                                           used_at |-> r.used_at]]]
    /\ UNCHANGED <<now, users, auxVars, codes, nextCodeId, redeemed, sessVars>>

(* the used / expired checks on the row read, against Utc::now()           *)
VerifyCodeCheck(p) ==
    /\ vproc[p].pc = "selected"
    /\ LET v == CheckSnapshot(vproc[p].snap, now)
       IN  vproc' = [vproc EXCEPT ![p] =
                IF v = "pass" THEN [@ EXCEPT !.pc = "checked"]
                ELSE [@ EXCEPT !.pc = "done", !.res = v]]
    /\ UNCHANGED <<now, users, auxVars, codes, nextCodeId, redeemed, sessVars>>

(* second round trip: the UPDATE, then Ok                                  *)
VerifyCodeMark(p) ==
    /\ vproc[p].pc = "checked"
    /\ codes' = MarkUsed(codes, vproc[p].snap.id, now)
    /\ vproc' = [vproc EXCEPT ![p] = [@ EXCEPT !.pc = "done", !.res = "Ok"]]
    /\ redeemed' = redeemed \cup
                     {Triple(vproc[p].snap.user_id, vproc[p].code, vproc[p].ctype)}
    /\ UNCHANGED <<now, users, auxVars, nextCodeId, sessVars>>

(* the user directory: the verified-email flag of user u is set            *)
MarkEmailVerified(usr, u) == [usr EXCEPT ![u].email_verified = TRUE]

(* verify_email, lines 80-89: get_user_by_email, the email_verified test,  *)
(* then the SELECT of verify_code for the user's id                        *)
VerifyEmailStart(p, e, c) ==
    IF ~users[e].exists \/ users[e].email_verified
    THEN /\ vproc[p].pc \in {"idle", "done"}
         /\ vproc' = [vproc EXCEPT ![p] =
               [IdleV EXCEPT !.op = "verify_email", !.who = e, !.code = c,
                             !.ctype = "email_verification", !.pc = "done",
                             !.res = IF ~users[e].exists THEN "UserNotFound"
                                     ELSE "EmailAlreadyVerified"]]
         /\ UNCHANGED <<now, users, auxVars, codes, nextCodeId, redeemed, sessVars>>
    ELSE VerifyCodeSelect(p, e, c, "email_verification")

(* verify_email, line 91: verify_code returned Ok, mark_email_verified     *)
VerifyEmailMarkVerified(p) ==
    /\ vproc[p].pc = "done" /\ vproc[p].op = "verify_code"
    /\ vproc[p].ctype = "email_verification" /\ vproc[p].res = "Ok"
    /\ users' = MarkEmailVerified(users, vproc[p].who)
    /\ vproc' = [vproc EXCEPT ![p] = [@ EXCEPT !.op = "verify_email"]]
    /\ UNCHANGED <<now, auxVars, codes, nextCodeId, redeemed, sessVars>>

(* cleanup_expired_codes *)
CleanupExpiredCodes ==
    /\ codes' = PurgedCodes(codes, now)
    /\ codes' # codes
    /\ UNCHANGED <<now, users, auxVars, nextCodeId, vproc, redeemed, sessVars>>

(* ---------------------------------------------------------------------- *)
(* Token issuer (JwtService).  A token is the record of its claims, typ    *)
(* telling an access token from a refresh token.  The subject and the      *)
(* session id travel as strings and are parsed back by the handlers.       *)
(* ---------------------------------------------------------------------- *)
UuidToString(x) == <<"uuid", x>>

ParseUuid(str) == IF str[1] = "uuid" THEN str[2] ELSE NULL

IssueAccess(u, sid, at) ==
    [typ |-> "access", sub |-> UuidToString(u), jti |-> UuidToString(sid),
     exp |-> at + access_token_expiry]

IssueRefresh(u, sid, at) ==
    [typ |-> "refresh", sub |-> UuidToString(u), jti |-> UuidToString(sid),
     exp |-> at + refresh_token_expiry]

VerifyAccess(tok, at) ==
    IF tok.typ # "access" THEN "MalformedCredential"
    ELSE IF at > tok.exp THEN "ExpiredCredential"
    ELSE "Ok"

VerifyRefresh(tok, at) ==
    IF tok.typ # "refresh" THEN "MalformedCredential"
    ELSE IF at > tok.exp THEN "ExpiredCredential"
    ELSE "Ok"

(* ---------------------------------------------------------------------- *)
(* Session store (TokenService).  The stored fingerprint of a refresh      *)
(* token identifies the record as the session id does, so a record is      *)
(* looked up by the session id of the token presented.                     *)
(* ---------------------------------------------------------------------- *)
TokenRetention == 1

Fingerprint(tok) == ParseUuid(tok.jti)

IsActive(r) == r.revoked_at = NULL /\ r.superseded_by = NULL
IsRotated(r) == r.superseded_by # NULL
IsRevoked(r) == r.revoked_at # NULL

NewRecord(sid, u, at) ==
    [id |-> sid, user_id |-> u, issued_at |-> at,
     expires_at |-> at + refresh_token_expiry,
     revoked_at |-> NULL, superseded_by |-> NULL]

(* validate_active that answers for a revoked record as for a rotated one *)
ValidateActiveRevokedAsSuperseded(tbl, fp) ==
    LET m == {r \in tbl : r.id = fp}
    IN  IF m = {} THEN "UnknownCredential"
        ELSE IF \E r \in m : IsRevoked(r) \/ IsRotated(r)
             THEN "CredentialSuperseded"
        ELSE "Ok"

(* validate_active *)
ValidateActive(tbl, fp) ==
    LET m == {r \in tbl : r.id = fp}
    IN  IF m = {} THEN "UnknownCredential"
        ELSE IF \E r \in m : IsRevoked(r) THEN "CredentialRevoked"
        ELSE IF \E r \in m : IsRotated(r) THEN "CredentialSuperseded"
        ELSE "Ok"

OwnerOf(tbl, fp) == (CHOOSE r \in tbl : r.id = fp).user_id

(* revoke_one with the test for an active record left out *)
RevokeOneAnyState(tbl, fp, at) ==
    {IF r.id = fp THEN [r EXCEPT !.revoked_at = at] ELSE r : r \in tbl}

(* revoke_one *)
RevokeOne(tbl, fp, at) ==
    {IF r.id = fp /\ IsActive(r) THEN [r EXCEPT !.revoked_at = at] ELSE r
       : r \in tbl}

(* revoke_all_for_user that takes the records of every user               *)
RevokeAllForEveryone(tbl, u, at) ==
    {IF IsActive(r) THEN [r EXCEPT !.revoked_at = at] ELSE r : r \in tbl}

(* revoke_all_for_user that clears the mark of the records it finds revoked *)
RevokeAllForUserToggle(tbl, u, at) ==
    {IF r.user_id = u
       THEN [r EXCEPT !.revoked_at = IF IsRevoked(r) THEN NULL ELSE at]
       ELSE r : r \in tbl}

(* revoke_all_for_user: the table afterwards, and the count returned *)
RevokeAllForUser(tbl, u, at) ==
    {IF r.user_id = u /\ IsActive(r) THEN [r EXCEPT !.revoked_at = at] ELSE r
       : r \in tbl}

RevokeAllCount(tbl, u) == Cardinality({r \in tbl : r.user_id = u /\ IsActive(r)})

(* rotate that marks the old record and stores no successor *)
RotateMarkOnly(tbl, fp, newSid, at) ==
    {IF r.id = fp /\ IsActive(r) THEN [r EXCEPT !.superseded_by = newSid] ELSE r
       : r \in tbl}

(* rotate: one transaction that validates again, marks and inserts *)
Rotate(tbl, fp, newSid, at) ==
    IF ValidateActive(tbl, fp) # "Ok" THEN tbl
    ELSE {IF r.id = fp THEN [r EXCEPT !.superseded_by = newSid] ELSE r : r \in tbl}
         \cup {NewRecord(newSid, OwnerOf(tbl, fp), at)}

(* list_active_sessions: the session ids of the summaries returned        *)
ListActiveSessions(tbl, u, exclude) ==
    {r.id : r \in {x \in tbl : x.user_id = u /\ IsActive(x) /\ x.id # exclude}}

(* create *)
Create(tbl, sid, u, at) == tbl \cup {NewRecord(sid, u, at)}

(* blacklist_access: SETEX replaces an entry of the same key *)
BlacklistAccess(bl, tok, ttl, at) ==
    {e \in bl : e.token # tok} \cup {[token |-> tok, until |-> at + ttl]}

(* the keys Redis still holds at a time: SETEX gives each its time to live *)
Evicted(bl, at) == {e \in bl : at < e.until}

(* is_blacklisted: EXISTS on the key *)
IsBlacklisted(bl, tok, at) == \E e \in Evicted(bl, at) : e.token = tok

(* cleanup_expired_tokens: records past the retention window *)
PurgedTokens(tbl, at) ==
    {r \in tbl : ~(r.expires_at + TokenRetention < at
                   \/ (IsRevoked(r) /\ r.revoked_at + TokenRetention < at))}

(* ---------------------------------------------------------------------- *)
(* Handlers of handlers/auth.rs                                            *)
(* ---------------------------------------------------------------------- *)
IdleS == [pc |-> "idle", op |-> "none", rt |-> NULL, at |-> NULL,
          all |-> FALSE, new |-> NULL, user |-> NULL, was |-> NULL,
          count |-> 0, sessions |-> {}, wrote |-> FALSE, res |-> "none"]
\* .was is history: revoked_at of the record of .rt before logout's revoke
\* .count is sessions_revoked of the logout response, .sessions the session
\* ids of the get_active_sessions response (of a reset_password request: the
\* ids of the user's sessions that were active when it started)
\* .wrote is history: the logout request has changed the blacklist

SessionIdle(p) == sproc[p].pc \in {"idle", "done"}

(* login that signs the access token for a session id of its own *)
LoginAccessTokenOtherId(u, sid, at) == IssueAccess(u, sid + 1, at)

(* login: the access token carries the id of the refresh record *)
LoginAccessToken(u, sid, at) == IssueAccess(u, sid, at)

(* login that leaves out the email_verified test *)
LoginCheckNoVerified(usr, pwOk) ==
    IF ~usr.exists THEN "UserNotFound"
    ELSE IF ~pwOk THEN "InvalidCredentials"
    ELSE "Ok"

(* login, lines 133-142: get_user_by_email, the email_verified test, then  *)
(* verify_password, whose result is pwOk                                   *)
LoginCheck(usr, pwOk) ==
    IF ~usr.exists THEN "UserNotFound"
    ELSE IF ~usr.email_verified THEN "EmailNotVerified"
    ELSE IF ~pwOk THEN "InvalidCredentials"
    ELSE "Ok"

(* login that passes its checks: the password is the user's                *)
Login(u) ==
    /\ LoginCheck(users[u], TRUE) = "Ok"
    /\ nextSid < MaxSessions
    /\ LET sid == nextSid + 1
       IN  /\ tokens' = Create(tokens, sid, u, now)
           /\ creds' = creds \cup
                 {[sid |-> sid, user |-> u,
                   refresh |-> IssueRefresh(u, sid, now),
                   access |-> LoginAccessToken(u, sid, now)]}
           /\ nextSid' = sid
    /\ UNCHANGED <<now, users, auxVars, codeVars, blacklist, sproc, rotations>>

(* login that ends at one of its checks (lines 133-142): the error is      *)
(* returned before a session id is drawn                                   *)
LoginRejected(p, u, pwOk) ==
    /\ SessionIdle(p)
    /\ LoginCheck(users[u], pwOk) # "Ok"
    /\ sproc' = [sproc EXCEPT ![p] =
          [IdleS EXCEPT !.op = "login", !.user = u, !.pc = "done",
                        !.res = LoginCheck(users[u], pwOk)]]
    /\ UNCHANGED <<now, users, auxVars, codeVars, tokens, nextSid, creds,
                   blacklist, rotations>>

(* refresh that goes on after a failed validation *)
RefreshAfterValidateIgnoringError(v) == "validated"

(* refresh, lines 212-215: `?` ends the request on an error *)
RefreshAfterValidate(v) == IF v = "Ok" THEN "validated" ELSE "done"

(* refresh that goes on after a failed rotation *)
RefreshAfterRotateIgnoringError(r) == "rotated"

(* refresh, lines 223-226: `?` ends the request on an error *)
RefreshAfterRotate(r) == IF r = "Ok" THEN "rotated" ELSE "done"

(* refresh, first round trip: the signature check, then the store's        *)
(* validation with its reuse policy                                        *)
RefreshValidate(p, c) ==
    /\ SessionIdle(p)
    /\ c \in creds
    /\ LET call == [IdleS EXCEPT !.op = "refresh", !.rt = c.sid,
                                 !.user = ParseUuid(c.refresh.sub)]
           j == VerifyRefresh(c.refresh, now)
           v == ValidateActive(tokens, Fingerprint(c.refresh))
           out == IF v = "CredentialSuperseded" THEN "CredentialReuseDetected"
                  ELSE v
       IN  IF j # "Ok"
           THEN /\ sproc' = [sproc EXCEPT ![p] =
                               [call EXCEPT !.pc = "done", !.res = j]]
                /\ tokens' = tokens
           ELSE /\ tokens' = IF v = "CredentialSuperseded"
                             THEN RevokeAllForUser(tokens,
                                     OwnerOf(tokens, Fingerprint(c.refresh)), now)
                             ELSE tokens
                /\ sproc' = [sproc EXCEPT ![p] =
                               [call EXCEPT !.pc = RefreshAfterValidate(v),
                                            !.res = out]]
    /\ UNCHANGED <<now, users, auxVars, codeVars, nextSid, creds, blacklist, rotations>>

(* refresh, second round trip: a new session id and token, then rotate.    *)
(* The id drawn for a rotation that fails is never stored; it is written 0 *)
(* and the ids of stored records count up from 1.                          *)
RefreshRotate(p) ==
    /\ sproc[p].pc = "validated"
    /\ LET r == ValidateActive(tokens, sproc[p].rt)
           sid == IF r = "Ok" THEN nextSid + 1 ELSE 0
       IN  /\ r = "Ok" => nextSid < MaxSessions
           /\ tokens' = Rotate(tokens, sproc[p].rt, sid, now)
           /\ nextSid' = IF r = "Ok" THEN sid ELSE nextSid
           /\ sproc' = [sproc EXCEPT ![p] =
                  [@ EXCEPT !.pc = RefreshAfterRotate(r), !.res = r,
                            !.new = sid]]
           /\ rotations' = IF r = "Ok" THEN rotations \cup {<<sproc[p].rt, sid>>}
                            ELSE rotations
    /\ UNCHANGED <<now, users, auxVars, codeVars, creds, blacklist>>

(* refresh, third round trip: get_user_by_id, the access token, cookies    *)
RefreshIssue(p) ==
    /\ sproc[p].pc = "rotated"
    /\ users[sproc[p].user].exists
    /\ creds' = creds \cup
          {[sid |-> sproc[p].new, user |-> sproc[p].user,
            refresh |-> IssueRefresh(sproc[p].user, sproc[p].new, now),
            access |-> IssueAccess(sproc[p].user, sproc[p].new, now)]}
    /\ sproc' = [sproc EXCEPT ![p] = [@ EXCEPT !.pc = "done", !.res = "Ok"]]
    /\ UNCHANGED <<now, users, auxVars, codeVars, tokens, nextSid, blacklist, rotations>>

(* refresh, third round trip when it fails (lines 228-234): the `?` after  *)
(* get_user_by_id or after generate_access_token returns the error; the    *)
(* rotation of the second round trip is committed and stays                *)
RefreshIssueFailed(p, err) ==
    /\ sproc[p].pc = "rotated"
    /\ sproc' = [sproc EXCEPT ![p] = [@ EXCEPT !.pc = "done", !.res = err]]
    /\ UNCHANGED <<now, users, auxVars, codeVars, tokens, nextSid, creds,
                   blacklist, rotations>>

(* logout, lines 334-337: the time to live handed to the blacklist         *)
LogoutBlacklistTtl(tok, at) == access_token_expiry

(* logout, first round trip: the cookies, the access token, the blacklist  *)
LogoutBlacklist(p, a, c, all) ==
    /\ SessionIdle(p)
    /\ a \in creds /\ c \in creds
    /\ LET call == [IdleS EXCEPT !.op = "logout", !.at = a.sid, !.rt = c.sid,
                                 !.all = all, !.user = ParseUuid(a.access.sub)]
           j == VerifyAccess(a.access, now)
       IN  IF j # "Ok"
           THEN /\ sproc' = [sproc EXCEPT ![p] =
                               [call EXCEPT !.pc = "done", !.res = j]]
                /\ blacklist' = blacklist
           ELSE /\ blacklist' = BlacklistAccess(blacklist, a.access,
                                    LogoutBlacklistTtl(a.access, now), now)
                /\ sproc' = [sproc EXCEPT ![p] =
                      [call EXCEPT !.pc = "blacklisted",
                                   !.wrote = (blacklist' # blacklist)]]
    /\ UNCHANGED <<now, users, auxVars, codeVars, tokens, nextSid, creds, rotations>>

(* logout, lines 328-329: the two cookies are looked for before the access *)
(* token is verified                                                       *)
LogoutCookies(hasAccess, hasRefresh) ==
    IF ~hasAccess THEN "Unauthorized"
    ELSE IF ~hasRefresh THEN "MissingRefreshToken"
    ELSE "Ok"

(* logout without one of its cookies: the `?` returns before any call of   *)
(* the token service                                                       *)
LogoutRejected(p, hasAccess, hasRefresh) ==
    /\ SessionIdle(p)
    /\ LogoutCookies(hasAccess, hasRefresh) # "Ok"
    /\ sproc' = [sproc EXCEPT ![p] =
          [IdleS EXCEPT !.op = "logout", !.pc = "done",
                        !.res = LogoutCookies(hasAccess, hasRefresh)]]
    /\ UNCHANGED <<now, users, auxVars, codeVars, tokens, nextSid, creds,
                   blacklist, rotations>>

(* logout that fails after the blacklist was written: to_bytes cannot read *)
(* the body (lines 339-341, BadRequest) or the revoke call returns the     *)
(* error of the store (lines 351-356); the `?` returns the error           *)
LogoutFailed(p, err) ==
    /\ sproc[p].pc = "blacklisted"
    /\ sproc' = [sproc EXCEPT ![p] = [@ EXCEPT !.pc = "done", !.res = err]]
    /\ UNCHANGED <<now, users, auxVars, codeVars, tokens, nextSid, creds,
                   blacklist, rotations>>

(* logout that reports one session revoked whatever it revoked             *)
LogoutSessionsRevokedOne(all, n) == 1

(* logout, lines 351-356: sessions_revoked of the response                 *)
LogoutSessionsRevoked(all, n) == IF all THEN n ELSE 1

(* logout, second round trip: revoke all sessions, or the refresh token    *)
LogoutRevoke(p) ==
    /\ sproc[p].pc = "blacklisted"
    /\ tokens' = IF sproc[p].all
                 THEN RevokeAllForUser(tokens, sproc[p].user, now)
                 ELSE RevokeOne(tokens, sproc[p].rt, now)
    /\ sproc' = [sproc EXCEPT ![p] =
          [@ EXCEPT !.pc = "done", !.res = "Ok",
                    !.count = LogoutSessionsRevoked(sproc[p].all,
                                 RevokeAllCount(tokens, sproc[p].user)),
                    !.was = IF \E r \in tokens : r.id = sproc[p].rt
                            THEN (CHOOSE r \in tokens : r.id = sproc[p].rt).revoked_at
                            ELSE NULL]]
    /\ UNCHANGED <<now, users, auxVars, codeVars, nextSid, creds, blacklist, rotations>>

(* get_active_sessions that excludes the id in the subject claim           *)
SessionsExcludeSubject(claims) == ParseUuid(claims.sub)

(* get_active_sessions, line 294: the caller's own session id              *)
SessionsExclude(claims) == ParseUuid(claims.jti)

(* get_active_sessions, line 293: the user whose sessions are listed       *)
SessionsUser(claims) == ParseUuid(claims.sub)

(* get_active_sessions: the access token, then one query of the store      *)
GetActiveSessions(p, a) ==
    /\ SessionIdle(p)
    /\ a \in creds
    /\ LET call == [IdleS EXCEPT !.op = "sessions", !.at = a.sid,
                                 !.user = SessionsUser(a.access), !.pc = "done"]
           j == VerifyAccess(a.access, now)
       IN  sproc' = [sproc EXCEPT ![p] =
              IF j # "Ok" THEN [call EXCEPT !.res = j]
              ELSE [call EXCEPT !.res = "Ok",
                       !.sessions = ListActiveSessions(tokens,
                            SessionsUser(a.access), SessionsExclude(a.access))]]
    /\ UNCHANGED <<now, users, auxVars, codeVars, tokens, nextSid, creds,
                   blacklist, rotations>>

(* reset_password, last round trip (lines 476-477): the earlier ones touch *)
(* the verification codes and the password hash only                       *)
ResetPasswordRevoke(u) ==
    /\ users[u].exists
    /\ tokens' = RevokeAllForUser(tokens, u, now)
    /\ tokens' # tokens
    /\ UNCHANGED <<now, users, auxVars, codeVars, nextSid, creds, blacklist, sproc, rotations>>

(* reset_password that revokes only the oldest active session of the user  *)
ResetRevokesOldest(tbl, u, at) ==
    LET act == {r.id : r \in {x \in tbl : x.user_id = u /\ IsActive(x)}}
    IN  {IF act # {} /\ r.id = (CHOOSE i \in act : \A j \in act : i <= j)
         THEN [r EXCEPT !.revoked_at = at] ELSE r : r \in tbl}

(* reset_password, lines 476-477: revoke_all_user_tokens(user.id)          *)
ResetRevokes(tbl, u, at) == RevokeAllForUser(tbl, u, at)

(* reset_password from its start (lines 450-474): get_user_by_email, then  *)
(* verify_code, hash_password and update_password, which touch the codes   *)
(* and the password hash only.  .sessions is history: the ids of the       *)
(* user's records that are active when the request starts.                 *)
ResetPasswordBegin(p, u) ==
    /\ SessionIdle(p)
    /\ users[u].exists
    /\ sproc' = [sproc EXCEPT ![p] =
          [IdleS EXCEPT !.op = "reset_password", !.user = u, !.pc = "verified",
                        !.sessions = {r.id : r \in {x \in tokens :
                                          x.user_id = u /\ IsActive(x)}}]]
    /\ UNCHANGED <<now, users, auxVars, codeVars, tokens, nextSid, creds,
                   blacklist, rotations>>

(* reset_password, lines 476-481: revoke_all_user_tokens, then the answer  *)
ResetPasswordEnd(p) ==
    /\ sproc[p].op = "reset_password" /\ sproc[p].pc = "verified"
    /\ tokens' = ResetRevokes(tokens, sproc[p].user, now)
    /\ sproc' = [sproc EXCEPT ![p] = [@ EXCEPT !.pc = "done", !.res = "Ok"]]
    /\ UNCHANGED <<now, users, auxVars, codeVars, nextSid, creds, blacklist,
                   rotations>>

(* the sweeper's run: cleanup_expired_tokens                               *)
CleanupExpiredTokens ==
    /\ tokens' = PurgedTokens(tokens, now)
    /\ tokens' # tokens
    /\ UNCHANGED <<now, users, auxVars, codeVars, nextSid, creds, blacklist, sproc, rotations>>

(* ---------------------------------------------------------------------- *)
(* The handlers that issue a code: register, resend_verification_code and  *)
(* forgot_password; the email service they call                            *)
(* ---------------------------------------------------------------------- *)
(* send_email, lines 111-114: the error of mailer.send is mapped by hand   *)
SendEmail(ok) == IF ok THEN "Ok" ELSE "InternalServerError"

IssuedCodeType(op) ==
    IF op = "forgot_password" THEN "password_reset" ELSE "email_verification"

IssueIdle == iproc.pc \in {"idle", "done"}

(* register, lines 49-52: create_user                                      *)
RegisterCreateUser(u) ==
    /\ IssueIdle
    /\ LET call == [IdleI EXCEPT !.op = "register", !.user = u]
       IN  IF users[u].exists
           THEN /\ iproc' = [call EXCEPT !.pc = "done", !.res = "UserAlreadyExists"]
                /\ users' = users
           ELSE /\ iproc' = [call EXCEPT !.pc = "user"]
                /\ users' = [users EXCEPT ![u] =
                                [exists |-> TRUE, email_verified |-> FALSE]]
    /\ UNCHANGED <<now, codeVars, sessVars, sweeper, responses>>

(* resend_verification_code, lines 103-107: the user of the email address  *)
ResendFindUser(e) ==
    /\ IssueIdle
    /\ LET call == [IdleI EXCEPT !.op = "resend", !.user = e]
       IN  iproc' =
             IF ~users[e].exists
             THEN [call EXCEPT !.pc = "done", !.res = "UserNotFound"]
             ELSE IF users[e].email_verified
             THEN [call EXCEPT !.pc = "done", !.res = "EmailAlreadyVerified"]
             ELSE [call EXCEPT !.pc = "user"]
    /\ UNCHANGED <<now, users, codeVars, sessVars, sweeper, responses>>

(* forgot_password, lines 413-431: an unknown or unverified address gets   *)
(* the answer of a known one and no code                                   *)
ForgotFindUser(e) ==
    /\ IssueIdle
    /\ LET call == [IdleI EXCEPT !.op = "forgot_password", !.user = e]
       IN  iproc' =
             IF ~users[e].exists \/ ~users[e].email_verified
             THEN [call EXCEPT !.pc = "done", !.res = "Ok"]
             ELSE [call EXCEPT !.pc = "user"]
    /\ UNCHANGED <<now, users, codeVars, sessVars, sweeper, responses>>

(* the call of create_verification_code of the three handlers              *)
IssueCreateCode(c) ==
    /\ iproc.pc = "user"
    /\ nextCodeId <= MaxCodes
    /\ LET t == IssuedCodeType(iproc.op)
       IN  /\ codes' = codes \cup {NewCode(nextCodeId, iproc.user, c, t, now)}
           /\ redeemed' = redeemed \ {Triple(iproc.user, c, t)}
    /\ nextCodeId' = nextCodeId + 1
    /\ iproc' = [iproc EXCEPT !.pc = "code", !.code = nextCodeId]
    /\ UNCHANGED <<now, users, vproc, sessVars, sweeper, responses>>

(* the call of send_verification_email / send_password_reset_email: the    *)
(* `?` returns the email service's error, and its Ok lets the handler      *)
(* answer                                                                  *)
IssueSend(ok) ==
    /\ iproc.pc = "code"
    /\ iproc' = [iproc EXCEPT !.pc = "done", !.res = SendEmail(ok)]
    /\ UNCHANGED <<now, users, codeVars, sessVars, sweeper, responses>>

(* ---------------------------------------------------------------------- *)
(* error.rs: AppError and the response it renders                          *)
(* ---------------------------------------------------------------------- *)
AppError ==
    {"Database", "Redis", "InvalidCredentials", "Unauthorized", "InvalidToken",
     "TokenExpired", "TokenRevoked", "MissingRefreshToken", "UserAlreadyExists",
     "UserNotFound", "InvalidVerificationCode", "VerificationCodeExpired",
     "VerificationCodeAlreadyUsed", "EmailNotVerified", "EmailAlreadyVerified",
     "EmailSendFailed", "Validation", "BadRequest", "InternalServerError",
     "PasswordHashError", "JwtError"}

(* the errors of a credential that is malformed, expired or revoked        *)
TokenErrors == {"InvalidToken", "JwtError", "TokenExpired", "TokenRevoked"}

(* into_response, lines 83-128: the status of each variant                 *)
StatusOf(err) ==
    IF err \in {"Database", "Redis", "EmailSendFailed", "InternalServerError",
                "PasswordHashError"} THEN 500
    ELSE IF err \in {"InvalidCredentials", "Unauthorized", "InvalidToken",
                     "TokenExpired", "TokenRevoked", "MissingRefreshToken",
                     "JwtError"} THEN 401
    ELSE IF err = "UserAlreadyExists" THEN 409
    ELSE IF err = "UserNotFound" THEN 404
    ELSE IF err = "EmailNotVerified" THEN 403
    ELSE 400

(* into_response, lines 83-128: the text of the "error" field of the body; *)
(* Validation and BadRequest carry the text they were made with            *)
BodyOf(err) ==
    IF err \in {"Database", "Redis", "InternalServerError", "PasswordHashError"}
    THEN "Internal server error"
    ELSE IF err = "InvalidCredentials" THEN "Invalid credentials"
    ELSE IF err = "Unauthorized" THEN "Unauthorized"
    ELSE IF err \in {"InvalidToken", "JwtError"} THEN "Invalid token"
    ELSE IF err = "TokenExpired" THEN "Token expired"
    ELSE IF err = "TokenRevoked" THEN "Token revoked"
    ELSE IF err = "MissingRefreshToken" THEN "Missing refresh token"
    ELSE IF err = "UserAlreadyExists" THEN "User already exists"
    ELSE IF err = "UserNotFound" THEN "User not found"
    ELSE IF err = "InvalidVerificationCode" THEN "Invalid verification code"
    ELSE IF err = "VerificationCodeExpired" THEN "Verification code has expired"
    ELSE IF err = "VerificationCodeAlreadyUsed"
         THEN "Verification code already used"
    ELSE IF err = "EmailNotVerified" THEN "Email not verified"
    ELSE IF err = "EmailAlreadyVerified" THEN "Email already verified"
    ELSE IF err = "EmailSendFailed" THEN "Failed to send email"
    ELSE "message"

(* into_response                                                           *)
IntoResponse(err) == [err |-> err, status |-> StatusOf(err), body |-> BodyOf(err)]

(* a handler returns Err(err) to client p: axum renders the response       *)
Respond(p, err) ==
    /\ responses' = [responses EXCEPT ![p] = IntoResponse(err)]
    /\ UNCHANGED <<now, users, codeVars, sessVars, sweeper, iproc>>

(* the cleanup task whose loop ends on a failed run                        *)
SweeperAfterRunPropagating(res) == IF res = "Ok" THEN "waiting" ELSE "stopped"

(* start_token_cleanup_task, lines 14-25: both arms of the match log and   *)
(* fall through to the next turn of the loop                               *)
SweeperAfterRun(res) == "waiting"

(* start_token_cleanup_task, line 12: the interval fires                   *)
SweeperTick ==
    /\ sweeper.pc = "waiting"
    /\ sweeper' = [sweeper EXCEPT !.pc = "running"]
    /\ UNCHANGED <<now, users, codeVars, sessVars, iproc, responses>>

(* start_token_cleanup_task, lines 14-25: one run of                       *)
(* token_service.cleanup_expired_tokens, which deletes or fails (the       *)
(* database is down); the verification codes are not touched               *)
SweeperCleanup(ok) ==
    /\ sweeper.pc = "running"
    /\ LET res == IF ok THEN "Ok" ELSE "Database"
       IN  /\ tokens' = IF ok THEN PurgedTokens(tokens, now) ELSE tokens
           /\ sweeper' = [pc |-> SweeperAfterRun(res), last |-> res]
    /\ UNCHANGED <<now, users, codeVars, nextSid, creds, blacklist, sproc,
                   rotations, iproc, responses>>

(* The clock.  Redis drops a key when its time to live has run out.        *)
TickTo(limit) ==
    /\ now < limit
    /\ now' = now + 1
    /\ blacklist' = Evicted(blacklist, now + 1)
    /\ UNCHANGED <<users, auxVars, codeVars, tokens, nextSid, creds, sproc, rotations>>

Tick == TickTo(MaxTime)

SessionTick == TickTo(MaxSessionTime)

(* ---------------------------------------------------------------------- *)
(* Specifications                                                          *)
(* ---------------------------------------------------------------------- *)
(* The code engine on a database that holds the users and no code yet.     *)
InitCodes ==
    /\ now = 0
    /\ users = [u \in Users |-> [exists |-> TRUE, email_verified |-> FALSE]]
    /\ codes = {}
    /\ nextCodeId = 1
    /\ vproc = [p \in Procs |-> IdleV]
    /\ redeemed = {}
    /\ tokens = {}
    /\ nextSid = 0
    /\ creds = {}
    /\ blacklist = {}
    /\ sproc = [p \in Procs |-> IdleS]
    /\ rotations = {}
    /\ sweeper = IdleSweeper
    /\ iproc = IdleI
    /\ responses = [p \in Procs |-> NoResponse]

Quiet == \A p \in Procs : vproc[p].pc \in {"idle", "done"}

(* One caller at a time: every call ends before the next one starts; the   *)
(* clock runs on during a call.                                            *)
NextCodes ==
    \/ \E u \in Users, t \in CodeType :
          Quiet /\ CreateVerificationCode(u, "042917", t)
    \/ \E u \in Users, t \in CodeType : VerifyCodeSelect(1, u, "042917", t)
    \/ \E e \in Users, t \in CodeType : VerifyCodeByEmailSelect(1, e, "042917", t)
    \/ VerifyCodeCheck(1)
    \/ VerifyCodeMark(1)
    \/ Quiet /\ CleanupExpiredCodes
    \/ Tick

SpecCodes == InitCodes /\ [][NextCodes]_vars

(* Two callers redeeming the code of one (user, code, purpose) at once.    *)
NextRace ==
    \/ CreateVerificationCode(1, "042917", "email_verification")
    \/ \E p \in Procs : VerifyCodeSelect(p, 1, "042917", "email_verification")
    \/ \E p \in Procs : VerifyCodeByEmailSelect(p, 1, "042917", "email_verification")
    \/ \E p \in Procs : VerifyCodeCheck(p)
    \/ \E p \in Procs : VerifyCodeMark(p)
    \/ CleanupExpiredCodes
    \/ Tick

SpecRace == InitCodes /\ [][NextRace]_vars

(* The session operations on a database whose users have verified their    *)
(* email address.                                                          *)
InitSessions ==
    /\ now = 0
    /\ users = [u \in Users |-> [exists |-> TRUE, email_verified |-> TRUE]]
    /\ codes = {}
    /\ nextCodeId = 1
    /\ vproc = [p \in Procs |-> IdleV]
    /\ redeemed = {}
    /\ tokens = {}
    /\ nextSid = 0
    /\ creds = {}
    /\ blacklist = {}
    /\ sproc = [p \in Procs |-> IdleS]
    /\ rotations = {}
    /\ sweeper = IdleSweeper
    /\ iproc = IdleI
    /\ responses = [p \in Procs |-> NoResponse]

SessionsQuiet == \A p \in Procs : SessionIdle(p)

(* The sessions of one user, one request at a time; the clock ticks        *)
(* between requests.  A browser sends the two cookies of one session.      *)
NextSessions ==
    \/ SessionsQuiet /\ Login(1)
    \/ \E c \in creds : RefreshValidate(1, c)
    \/ RefreshRotate(1)
    \/ RefreshIssue(1)
    \/ \E c \in creds, all \in BOOLEAN : LogoutBlacklist(1, c, c, all)
    \/ LogoutRevoke(1)
    \/ SessionsQuiet /\ ResetPasswordRevoke(1)
    \/ SessionsQuiet /\ CleanupExpiredTokens
    \/ SessionsQuiet /\ Tick

SpecSessions == InitSessions /\ [][NextSessions]_vars

(* The tokens of two users' sessions over their lifetimes: one request at  *)
(* a time, the clock runs past the expiry of the access tokens.            *)
NextAccess ==
    \/ \E u \in Users : SessionsQuiet /\ Login(u)
    \/ \E c \in creds : RefreshValidate(1, c)
    \/ RefreshRotate(1)
    \/ RefreshIssue(1)
    \/ \E c \in creds : LogoutBlacklist(1, c, c, FALSE)
    \/ LogoutRevoke(1)
    \/ SessionsQuiet /\ SessionTick

SpecAccess == InitSessions /\ [][NextAccess]_vars

(* The sessions of two users on their devices, one request at a time       *)
(* within one tick of the clock; a request carries the access cookie of    *)
(* one session and the refresh cookie of any.                              *)
NextDevices ==
    \/ \E u \in Users : SessionsQuiet /\ Login(u)
    \/ \E c \in creds : RefreshValidate(1, c)
    \/ RefreshRotate(1)
    \/ RefreshIssue(1)
    \/ \E a, c \in creds, all \in BOOLEAN : LogoutBlacklist(1, a, c, all)
    \/ LogoutRevoke(1)
    \/ \E a \in creds : GetActiveSessions(1, a)
    \/ \E u \in Users : SessionsQuiet /\ ResetPasswordRevoke(u)

SpecDevices == InitSessions /\ [][NextDevices]_vars

(* Issuance and redemption of codes, one request at a time: user 1 has a   *)
(* verified address, user 2 is not registered yet; the SMTP relay may fail. *)
InitIssue ==
    /\ now = 0
    /\ users = [u \in Users |->
                  IF u = 1 THEN [exists |-> TRUE, email_verified |-> TRUE]
                  ELSE NoUser]
    /\ codes = {}
    /\ nextCodeId = 1
    /\ vproc = [p \in Procs |-> IdleV]
    /\ redeemed = {}
    /\ tokens = {}
    /\ nextSid = 0
    /\ creds = {}
    /\ blacklist = {}
    /\ sproc = [p \in Procs |-> IdleS]
    /\ rotations = {}
    /\ sweeper = IdleSweeper
    /\ iproc = IdleI
    /\ responses = [p \in Procs |-> NoResponse]

NextIssue ==
    \/ \E u \in Users : Quiet /\ RegisterCreateUser(u)
    \/ \E e \in Users : Quiet /\ ResendFindUser(e)
    \/ \E e \in Users : Quiet /\ ForgotFindUser(e)
    \/ IssueCreateCode("042917")
    \/ \E ok \in BOOLEAN : IssueSend(ok)
    \/ \E u \in Users, t \in CodeType :
          IssueIdle /\ VerifyCodeSelect(1, u, "042917", t)
    \/ VerifyCodeCheck(1)
    \/ VerifyCodeMark(1)
    \/ Quiet /\ IssueIdle /\ Tick

SpecIssue == InitIssue /\ [][NextIssue]_vars

(* Two clients, each with the response to its last rejected request.       *)
NextErrors == \E p \in Procs, err \in AppError : Respond(p, err)

SpecErrors == InitSessions /\ [][NextErrors]_vars

(* The cleanup task beside the issuance of codes and the sessions of one   *)
(* user.                                                                   *)
NextSweeper ==
    \/ CreateVerificationCode(1, "042917", "email_verification")
    \/ Login(1)
    \/ ResetPasswordRevoke(1)
    \/ SweeperTick
    \/ \E ok \in BOOLEAN : SweeperCleanup(ok)
    \/ Tick

SpecSweeper == InitSessions /\ [][NextSweeper]_vars

(* tokio runs the spawned task: the interval fires again and again, and a  *)
(* run that was started returns                                            *)
FairSweeper ==
    /\ SpecSweeper
    /\ WF_vars(SweeperTick)
    /\ WF_vars(\E ok \in BOOLEAN : SweeperCleanup(ok))

(* Two requests of one user at once, within one tick of the clock: refresh *)
(* against refresh, logout, logout from all devices and password reset.    *)
NextSessRace ==
    \/ Login(1)
    \/ \E p \in Procs, c \in creds : RefreshValidate(p, c)
    \/ \E p \in Procs : RefreshRotate(p)
    \/ \E p \in Procs : RefreshIssue(p)
    \/ \E c \in creds, all \in BOOLEAN : LogoutBlacklist(2, c, c, all)
    \/ LogoutRevoke(2)
    \/ ResetPasswordRevoke(1)

SpecSessRace == InitSessions /\ [][NextSessRace]_vars

(* One caller redeeming codes of both users and both purposes, within one  *)
(* tick of the clock.                                                      *)
NextScope ==
    \/ \E u \in Users, t \in CodeType :
          Quiet /\ CreateVerificationCode(u, "042917", t)
    \/ \E u \in Users, t \in CodeType : VerifyCodeSelect(1, u, "042917", t)
    \/ \E e \in Users, t \in CodeType : VerifyCodeByEmailSelect(1, e, "042917", t)
    \/ VerifyCodeCheck(1)
    \/ VerifyCodeMark(1)

SpecScope == InitCodes /\ [][NextScope]_vars

(* The codes of one user and one purpose, one caller, and the cleanup of   *)
(* codes, which may run at any point of a call as the clock may.           *)
NextSweepCodes ==
    \/ CreateVerificationCode(1, "042917", "email_verification")
    \/ VerifyCodeSelect(1, 1, "042917", "email_verification")
    \/ VerifyCodeCheck(1)
    \/ VerifyCodeMark(1)
    \/ CleanupExpiredCodes
    \/ Tick

SpecSweepCodes == InitCodes /\ [][NextSweepCodes]_vars

(* The refresh requests of two clients, where the database or the signing  *)
(* of the access token may fail after the rotation; a client asks again    *)
(* after an error.                                                         *)
NextRetry ==
    \/ \E u \in Users : Login(u)
    \/ \E p \in Procs, c \in creds : RefreshValidate(p, c)
    \/ \E p \in Procs : RefreshRotate(p)
    \/ \E p \in Procs : RefreshIssue(p)
    \/ \E p \in Procs, err \in {"Database", "JwtError"} : RefreshIssueFailed(p, err)

SpecRetry == InitSessions /\ [][NextRetry]_vars

(* From registration to the first session: user 1 is registered with an   *)
(* unverified address, address 2 belongs to no user.                       *)
InitOnboard ==
    /\ now = 0
    /\ users = [u \in Users |->
                  IF u = 1 THEN [exists |-> TRUE, email_verified |-> FALSE]
                  ELSE NoUser]
    /\ codes = {}
    /\ nextCodeId = 1
    /\ vproc = [p \in Procs |-> IdleV]
    /\ redeemed = {}
    /\ tokens = {}
    /\ nextSid = 0
    /\ creds = {}
    /\ blacklist = {}
    /\ sproc = [p \in Procs |-> IdleS]
    /\ rotations = {}
    /\ sweeper = IdleSweeper
    /\ iproc = IdleI
    /\ responses = [p \in Procs |-> NoResponse]

NextOnboard ==
    \/ CreateVerificationCode(1, "042917", "email_verification")
    \/ \E e \in Users : VerifyEmailStart(1, e, "042917")
    \/ VerifyCodeCheck(1)
    \/ VerifyCodeMark(1)
    \/ VerifyEmailMarkVerified(1)
    \/ \E u \in Users : Login(u)
    \/ \E u \in Users, pwOk \in BOOLEAN : LoginRejected(1, u, pwOk)
    \/ Tick

SpecOnboard == InitOnboard /\ [][NextOnboard]_vars

(* A password reset of client 1 beside the logins of the users and the     *)
(* refresh requests of client 2, within one tick of the clock.             *)
NextReset ==
    \/ \E u \in Users : Login(u)
    \/ \E c \in creds : RefreshValidate(2, c)
    \/ RefreshRotate(2)
    \/ RefreshIssue(2)
    \/ \E u \in Users : ResetPasswordBegin(1, u)
    \/ ResetPasswordEnd(1)

SpecReset == InitSessions /\ [][NextReset]_vars

(* The logout requests of one client with its failures: a cookie missing,  *)
(* an access token past its expiry, a body that cannot be read, a store    *)
(* that fails at the revoke.                                               *)
NextLogout ==
    \/ \E u \in Users : Login(u)
    \/ \E hasAccess, hasRefresh \in BOOLEAN :
          LogoutRejected(1, hasAccess, hasRefresh)
    \/ \E c \in creds, all \in BOOLEAN : LogoutBlacklist(1, c, c, all)
    \/ LogoutRevoke(1)
    \/ \E err \in {"BadRequest", "Database"} : LogoutFailed(1, err)
    \/ SessionsQuiet /\ SessionTick

SpecLogout == InitSessions /\ [][NextLogout]_vars

(* ---------------------------------------------------------------------- *)
(* Properties of the verification-code engine                              *)
(* ---------------------------------------------------------------------- *)
Done(p) == vproc[p].pc = "done"

Found(p) == vproc[p].snap.id # NULL

(* C1 (as stated): two overlapping redeem calls that both read the same    *)
(* unused row, which is still unexpired, end with exactly one Ok; the      *)
(* other fails with VerificationCodeAlreadyUsed or InvalidVerificationCode *)
(* Violated: both UPDATEs run and both calls return Ok.                    *)
C1_SingleUseUnderContention ==
    \A p, q \in Procs :
        ( /\ p # q /\ Done(p) /\ Done(q)
          /\ Found(p) /\ vproc[p].snap.id = vproc[q].snap.id
          /\ vproc[p].snap.used_at = NULL /\ vproc[q].snap.used_at = NULL
          /\ vproc[p].snap.expires_at >= now )
        => \/ /\ vproc[p].res = "Ok"
              /\ vproc[q].res \in {"VerificationCodeAlreadyUsed",
                                    "InvalidVerificationCode"}
           \/ /\ vproc[q].res = "Ok"
              /\ vproc[p].res \in {"VerificationCodeAlreadyUsed",
                                    "InvalidVerificationCode"}

(* C5 (as stated): a redeem of a triple that was already redeemed, with no *)
(* code of that value issued since, fails with VerificationCodeAlreadyUsed *)
(* Violated after cleanup_expired_codes has deleted the used row.          *)
C5_LaterRedeemAlreadyUsed ==
    (Done(1) /\ vproc[1].prior) => vproc[1].res = "VerificationCodeAlreadyUsed"

(* C5 (amended): with one caller at a time, a redeem that reads an unused  *)
(* row that is still unexpired returns Ok and the row has used_at set; a   *)
(* later redeem of the same triple, no code of that value issued since,    *)
(* never returns Ok: it fails with VerificationCodeAlreadyUsed while the   *)
(* used row is stored and with InvalidVerificationCode once it is purged.  *)
C5_SequentialSingleUse ==
    /\ (Done(1) /\ vproc[1].prior) =>
          /\ Found(1) => vproc[1].res = "VerificationCodeAlreadyUsed"
          /\ ~Found(1) => vproc[1].res = "InvalidVerificationCode"
    /\ (Done(1) /\ Found(1) /\ vproc[1].snap.used_at = NULL
         /\ vproc[1].snap.expires_at >= now) =>
          /\ vproc[1].res = "Ok"
          /\ \A r \in codes : r.id = vproc[1].snap.id => r.used_at # NULL
    /\ \A r \in codes :
          Triple(r.user_id, r.code, r.code_type) \in redeemed =>
             \E x \in codes : /\ x.id >= r.id
                              /\ Triple(x.user_id, x.code, x.code_type)
                                   = Triple(r.user_id, r.code, r.code_type)
                              /\ x.used_at # NULL

(* a second redeem of a redeemed code has failed with AlreadyUsed          *)
C5_Witness ==
    /\ Done(1) /\ vproc[1].prior /\ Found(1)
    /\ vproc[1].res = "VerificationCodeAlreadyUsed"

(* C6 (as stated): a redeem of a row whose expires_at is in the past fails *)
(* with VerificationCodeExpired, whether used_at is set or not.            *)
(* Violated: the used_at test comes first, so a used and expired row       *)
(* answers VerificationCodeAlreadyUsed.                                    *)
C6_ExpiredAlwaysCodeExpired ==
    (Done(1) /\ Found(1) /\ vproc[1].late) =>
        vproc[1].res = "VerificationCodeExpired"

(* C6 (amended): a redeem of a row whose expires_at is in the past never   *)
(* returns Ok: it fails with VerificationCodeExpired when used_at is unset *)
(* and with VerificationCodeAlreadyUsed when used_at is set, and it leaves *)
(* the row as it was.                                                      *)
C6_ExpiredNeverRedeemed ==
    (Done(1) /\ Found(1) /\ vproc[1].late) =>
        /\ vproc[1].snap.used_at = NULL => vproc[1].res = "VerificationCodeExpired"
        /\ vproc[1].snap.used_at # NULL => vproc[1].res = "VerificationCodeAlreadyUsed"
        /\ \A r \in codes :
              r.id = vproc[1].snap.id => r.used_at = vproc[1].snap.used_at

(* an expired, unused code was presented and refused as expired            *)
C6_Witness ==
    /\ Done(1) /\ Found(1) /\ vproc[1].late
    /\ vproc[1].snap.used_at = NULL
    /\ vproc[1].res = "VerificationCodeExpired"

(* ---------------------------------------------------------------------- *)
(* Properties of the session store and the handlers                        *)
(* ---------------------------------------------------------------------- *)
Stored(tbl, sid) == \E r \in tbl : r.id = sid

Rec(tbl, sid) == CHOOSE r \in tbl : r.id = sid

Refreshing(p) == sproc[p].op = "refresh"

CredOf(sid) == CHOOSE c \in creds : c.sid = sid

(* the step taken is p's first round trip of a refresh that passes the     *)
(* signature check                                                         *)
ValidateStep(p) ==
    /\ SessionIdle(p)
    /\ sproc'[p] # sproc[p]
    /\ sproc'[p].op = "refresh"
    /\ VerifyRefresh(CredOf(sproc'[p].rt).refresh, now) = "Ok"

(* the step taken is p's rotate round trip                                 *)
RotateStep(p) == sproc[p].pc = "validated" /\ sproc'[p] # sproc[p]

(* C2: of two refresh requests that present the same refresh token, at     *)
(* most one returns Ok, and then the other has failed with                 *)
(* CredentialSuperseded (at its rotate step) or CredentialReuseDetected    *)
(* (at its validation); a request that fails so has lost to a rotation     *)
(* that created a successor record; no record is rotated into two          *)
(* successors, and a rotation committed has its one successor named in     *)
(* superseded-by.                                                          *)
C2_RotationSingleUse ==
    /\ \A p, q \in Procs :
         ( /\ p # q /\ Refreshing(p) /\ Refreshing(q)
           /\ sproc[p].rt = sproc[q].rt
           /\ sproc[p].pc \in {"rotated", "done"} /\ sproc[p].res = "Ok"
           /\ sproc[q].pc = "done" )
         => /\ sproc[q].res \in {"CredentialSuperseded", "CredentialReuseDetected"}
            /\ (sproc[q].new # NULL => sproc[q].res = "CredentialSuperseded")
    /\ \A q \in Procs :
         ( /\ Refreshing(q) /\ sproc[q].pc = "done"
           /\ sproc[q].res \in {"CredentialSuperseded", "CredentialReuseDetected"} )
         => \E x \in rotations : x[1] = sproc[q].rt /\ Stored(tokens, x[2])
    /\ \A x, y \in rotations : x[1] = y[1] => x = y
    /\ \A x \in rotations :
         Stored(tokens, x[1]) => Rec(tokens, x[1]).superseded_by = x[2]

(* two refresh requests raced on one token: one rotated it, the other lost *)
(* at its own rotate step                                                  *)
C2_Witness ==
    \E p, q \in Procs :
        /\ p # q /\ Refreshing(p) /\ Refreshing(q)
        /\ sproc[p].rt = sproc[q].rt
        /\ sproc[p].pc = "done" /\ sproc[p].res = "Ok"
        /\ sproc[q].pc = "done" /\ sproc[q].res = "CredentialSuperseded"
        /\ sproc[q].new # NULL

C4_RecordStates ==
    /\ [](\A r \in tokens : ~(IsRotated(r) /\ IsRevoked(r)))
    /\ [][ \A r \in tokens : ~IsActive(r) =>
              \A x \in tokens' : x.id = r.id => ~IsActive(x) ]_vars

(* a rotated record and a revoked record are stored                        *)
C4_Witness ==
    /\ \E r \in tokens : IsRotated(r)
    /\ \E r \in tokens : IsRevoked(r) /\ r.revoked_at < now

(* C7: a single-device logout whose refresh record is already revoked      *)
(* returns Ok as the first one did and leaves revoked-at at its first      *)
(* value; there is one record of that session id.                          *)
C7_RevokeIdempotent ==
    /\ ( /\ sproc[1].pc = "done" /\ sproc[1].op = "logout" /\ ~sproc[1].all
         /\ sproc[1].res = "Ok" /\ sproc[1].was # NULL )
       => \A r \in tokens : r.id = sproc[1].rt => r.revoked_at = sproc[1].was
    /\ ( /\ sproc[1].pc = "done" /\ sproc[1].op = "logout"
         /\ VerifyAccess(CredOf(sproc[1].at).access, now) = "Ok" )
       => sproc[1].res = "Ok"
    /\ \A r, x \in tokens : r.id = x.id => r = x

(* a second logout of a session revoked at an earlier time has returned Ok *)
C7_Witness ==
    /\ sproc[1].pc = "done" /\ sproc[1].op = "logout" /\ ~sproc[1].all
    /\ sproc[1].res = "Ok" /\ sproc[1].was # NULL /\ sproc[1].was < now
    /\ Stored(tokens, sproc[1].rt)
    /\ Rec(tokens, sproc[1].rt).revoked_at = sproc[1].was

(* C8 (as stated): after a single-device logout of session S has returned  *)
(* Ok, is_blacklisted of S's access token is true at every time before the *)
(* token's expiry and false at every time after it.                        *)
(* Violated: logout hands the configured lifetime, not the token's         *)
(* remaining lifetime, to the blacklist, so the entry outlives the token.  *)
C8_BlacklistedUntilExpiry ==
    ( /\ sproc[1].pc = "done" /\ sproc[1].op = "logout" /\ ~sproc[1].all
      /\ sproc[1].res = "Ok" )
    => LET tok == CredOf(sproc[1].at).access
       IN  /\ now < tok.exp => IsBlacklisted(blacklist, tok, now)
           /\ now > tok.exp => ~IsBlacklisted(blacklist, tok, now)

C10_RevocationWins ==
    /\ [](\A x \in rotations :
            Stored(tokens, x[1]) => ~IsRevoked(Rec(tokens, x[1])))
    /\ [][ \A p \in Procs :
             ( /\ ValidateStep(p) \/ RotateStep(p)
               /\ Stored(tokens, sproc'[p].rt)
               /\ IsRevoked(Rec(tokens, sproc'[p].rt)) )
             => /\ sproc'[p].pc = "done"
                /\ sproc'[p].res = "CredentialRevoked"
                /\ tokens' = tokens
                /\ rotations' = rotations
         ]_vars

(* a refresh passed its validation and lost the race to a revocation       *)
C10_Witness ==
    \E p \in Procs :
        /\ Refreshing(p) /\ sproc[p].pc = "done"
        /\ sproc[p].res = "CredentialRevoked" /\ sproc[p].new # NULL
        /\ Stored(tokens, sproc[p].rt) /\ IsRevoked(Rec(tokens, sproc[p].rt))
        /\ ~Stored(tokens, sproc[p].new)
(* C11 (as stated): in every state, a record whose superseded-by names a   *)
(* session id coexists with a stored record of that id.                    *)
(* Violated: the sweeper purges a revoked successor while the rotated      *)
(* record before it is still retained.                                     *)
C11_SuccessorStored ==
    \A r \in tokens : IsRotated(r) => Stored(tokens, r.superseded_by)

(* C11 (amended): the step that sets superseded-by to N on a record also   *)
(* stores the record of N, which was not stored before; this holds with    *)
(* the refresh request stopped at any of its steps, since no other step    *)
(* writes superseded-by; and a record leaves the store only in a run of    *)
(* the sweeper.                                                            *)
C11_RotationAtomic ==
    [][ /\ \A r \in tokens' :
              ( /\ IsRotated(r)
                /\ ~(\E o \in tokens : o.id = r.id /\ IsRotated(o)) )
              => /\ Stored(tokens', r.superseded_by)
                 /\ ~Stored(tokens, r.superseded_by)
                 /\ IsActive(Rec(tokens', r.superseded_by))
                 /\ \E p \in Procs : RotateStep(p) /\ sproc'[p].res = "Ok"
        /\ (\E r \in tokens : ~Stored(tokens', r.id))
              => tokens' = PurgedTokens(tokens, now)
      ]_vars

(* a refresh request stands between its rotation and its response: the old *)
(* record is rotated, its successor is stored, no token of it is handed out *)
C11_Witness ==
    /\ sproc[1].pc = "rotated"
    /\ Stored(tokens, sproc[1].rt)
    /\ Rec(tokens, sproc[1].rt).superseded_by = sproc[1].new
    /\ Stored(tokens, sproc[1].new)
    /\ \A c \in creds : c.sid # sproc[1].new

(* C12: a refresh whose token passes the signature check and whose record  *)
(* is revoked, and not rotated, ends at its validation with                *)
(* CredentialRevoked and changes no record of the store.                   *)
C12_RevokedNoMassRevocation ==
    [][ \A p \in Procs :
          ( /\ ValidateStep(p)
            /\ Stored(tokens, sproc'[p].rt)
            /\ IsRevoked(Rec(tokens, sproc'[p].rt))
            /\ ~IsRotated(Rec(tokens, sproc'[p].rt)) )
          => /\ sproc'[p].pc = "done"
             /\ sproc'[p].res = "CredentialRevoked"
             /\ tokens' = tokens
      ]_vars

(* the token of a revoked session was refused as revoked and another       *)
(* session of the same user is still active                                *)
C12_Witness ==
    /\ sproc[1].pc = "done" /\ Refreshing(1)
    /\ sproc[1].res = "CredentialRevoked"
    /\ Stored(tokens, sproc[1].rt) /\ IsRevoked(Rec(tokens, sproc[1].rt))
    /\ \E r \in tokens :
          /\ r.id # sproc[1].rt /\ IsActive(r)
          /\ r.user_id = Rec(tokens, sproc[1].rt).user_id
(* the step taken is the revoke round trip of p's logout                   *)
LogoutRevokeStep(p) == sproc[p].pc = "blacklisted" /\ sproc'[p].pc = "done"

(* the step taken is the last round trip of a password reset               *)
ResetStep == sproc' = sproc /\ nextSid' = nextSid /\ tokens' # tokens

(* the table t2 is the table t1 with the active records of u revoked at    *)
(* the time given and every other record as it was                         *)
AllOfUserRevoked(t1, t2, u, at) ==
    /\ \A r \in t1 :
          IF r.user_id = u /\ IsActive(r)
          THEN [r EXCEPT !.revoked_at = at] \in t2 /\ r \notin t2
          ELSE r \in t2
    /\ Cardinality(t2) = Cardinality(t1)

(* C13: logout from all devices and password reset leave the table with    *)
(* every record of the user that was active revoked at the time of the     *)
(* call and every other record, of that user or another, as it was; the    *)
(* number logout reports is the number of records that went from active to *)
(* revoked.                                                                *)
C13_RevokeAllForUser ==
    [][ /\ \A p \in Procs :
              (LogoutRevokeStep(p) /\ sproc[p].all)
              => /\ AllOfUserRevoked(tokens, tokens', CredOf(sproc[p].at).user, now)
                 /\ sproc'[p].count =
                       Cardinality({r \in tokens :
                          /\ IsActive(r)
                          /\ \E x \in tokens' : x.id = r.id /\ IsRevoked(x)})
        /\ ResetStep =>
              \E u \in Users : AllOfUserRevoked(tokens, tokens', u, now)
      ]_vars

(* a logout from all devices has revoked a session of its user and reports *)
(* it, and a session of the other user is still active                     *)
C13_Witness ==
    /\ sproc[1].pc = "done" /\ sproc[1].op = "logout" /\ sproc[1].all
    /\ sproc[1].count >= 1
    /\ \E r \in tokens : r.user_id = sproc[1].user /\ r.revoked_at = now
    /\ \E r \in tokens : r.user_id # sproc[1].user /\ IsActive(r)

(* the step taken is p's get_active_sessions with an access token that     *)
(* verifies                                                                *)
ListStep(p) ==
    /\ SessionIdle(p)
    /\ sproc'[p] # sproc[p]
    /\ sproc'[p].op = "sessions"
    /\ sproc'[p].res = "Ok"

C15_LogoutRevokesPairedOnly ==
    [][ \A p \in Procs :
          (LogoutRevokeStep(p) /\ ~sproc[p].all)
          => /\ \A r \in tokens :
                   r \notin tokens' =>
                      r.id = sproc[p].at /\ r.user_id = sproc[p].user
             /\ \A r \in tokens :
                   (r.id = sproc[p].at /\ IsActive(r))
                      => \E x \in tokens' : x.id = r.id /\ IsRevoked(x)
      ]_vars

(* C16 (as stated): the time to live that logout hands to the blacklist is *)
(* the remaining lifetime of the access token, so the entry ends at the    *)
(* token's expiry, whenever in the token's life the logout comes.          *)
(* Violated: logout hands over the configured lifetime; an entry made      *)
(* after the token was issued ends after the token's expiry.               *)
C16_TtlIsRemainingLifetime ==
    [][ \A p \in Procs :
          ( /\ SessionIdle(p) /\ sproc'[p].pc = "blacklisted" )
          => LET tok == CredOf(sproc'[p].at).access
             IN  /\ LogoutBlacklistTtl(tok, now) = tok.exp - now
                 /\ \A e \in blacklist' : e.token = tok => e.until = tok.exp
      ]_vars

(* the step taken is a run of the cleanup task that succeeded              *)
SweepOkStep ==
    sweeper.pc = "running" /\ sweeper'.pc # "running" /\ sweeper'.last = "Ok"

ExpiredCodeStored(id) == \E r \in codes : r.id = id /\ r.expires_at < now

(* C17 (as stated): every run of the cleanup task purges the refresh       *)
(* records and the verification codes, and with runs that succeed again    *)
(* and again a stored code that is past its expiry is eventually deleted.  *)
(* Violated: the task calls cleanup_expired_tokens only; a run leaves the  *)
(* expired codes where they are.                                           *)
C17_SweeperPurgesCodes ==
    /\ [][ SweepOkStep =>
             /\ tokens' = PurgedTokens(tokens, now)
             /\ codes' = PurgedCodes(codes, now) ]_vars
    /\ \A id \in 1..MaxCodes :
          []<>(sweeper.pc = "waiting" /\ sweeper.last = "Ok")
             => (ExpiredCodeStored(id) ~> ~(\E r \in codes : r.id = id))

(* C18: a run of the cleanup task that fails leaves the task waiting for   *)
(* its next tick, never stopped; the task in any state, and so after any   *)
(* number of failed runs, is eventually running cleanup again.             *)
C18_SweeperRetries ==
    /\ [](sweeper.pc \in {"waiting", "running"})
    /\ [][ (sweeper.pc = "running" /\ sweeper' # sweeper)
             => sweeper'.pc = "waiting" ]_vars
    /\ (sweeper.last = "Database" /\ sweeper.pc = "waiting")
          ~> (sweeper.pc = "running")
    /\ []<>(sweeper.pc = "running")

(* the task is running cleanup again after a run that failed               *)
C18_Witness == sweeper.pc = "running" /\ sweeper.last = "Database"

(* the request ended at the failure of the email service                   *)
SendFailed ==
    /\ iproc.pc = "done" /\ iproc.code # NULL /\ iproc.res # "Ok"

(* C19 (as stated): an issuance request whose email could not be sent ends *)
(* with EmailSendFailed, and the code it created is stored, unused, for    *)
(* its user and purpose.                                                   *)
(* Violated: send_email maps the SMTP error to InternalServerError.        *)
C19_DeliveryFailedKeepsCode ==
    SendFailed =>
       /\ iproc.res = "EmailSendFailed"
       /\ ((\A p \in Procs : vproc[p].pc = "idle") =>
             \E r \in codes :
                /\ r.id = iproc.code /\ r.user_id = iproc.user
                /\ r.code_type = IssuedCodeType(iproc.op)
                /\ r.used_at = NULL)

(* C20 (as stated): two requests rejected for a credential that is         *)
(* malformed, expired or revoked get the same status and the same body.    *)
(* Violated: the status is 401 for all, the body names the cause.          *)
C20_OpaqueTokenErrors ==
    \A p, q \in Procs :
        (responses[p].err \in TokenErrors /\ responses[q].err \in TokenErrors)
        => /\ responses[p].status = responses[q].status
           /\ responses[p].body = responses[q].body

(* ---------------------------------------------------------------------- *)
(* Properties of forgot_password                                           *)
(* ---------------------------------------------------------------------- *)
(* C21 (as stated): forgot_password answers alike for an address with no   *)
(* user, with an unverified user and with a verified user, also when the   *)
(* delivery of the email fails for the user that exists: every             *)
(* forgot_password request that has ended got the one generic answer.      *)
(* Violated: the `?` after send_password_reset_email returns the error.    *)
C21_ForgotPasswordSameAnswer ==
    (iproc.op = "forgot_password" /\ iproc.pc = "done") => iproc.res = "Ok"

(* ---------------------------------------------------------------------- *)
(* More properties of the verification-code engine                         *)
(* ---------------------------------------------------------------------- *)
(* the rows of the (user, code, purpose) of the call of p                  *)
Matching(p) ==
    {r \in codes : /\ r.user_id = vproc[p].who /\ r.code = vproc[p].code
                   /\ r.code_type = vproc[p].ctype}

(* C22 (as stated): redeem takes the newest of the matching rows that are  *)
(* unused: with a newer used row and an older row of the same triple that  *)
(* is unused and unexpired, it redeems the older row, so it fails with     *)
(* VerificationCodeAlreadyUsed only when no matching row is stored unused  *)
(* and unexpired.                                                          *)
(* Violated: the SELECT has no used_at filter, the newest row is read      *)
(* whether used or not.                                                    *)
C22_RedeemNewestUnused ==
    (Done(1) /\ Found(1) /\ vproc[1].res = "VerificationCodeAlreadyUsed") =>
        ~ \E r \in Matching(1) :
              /\ r.id < vproc[1].snap.id
              /\ r.used_at = NULL
              /\ r.expires_at >= now

(* C23 (as stated): no stored code has used_at later than its expires_at,  *)
(* also when the code expires between the read of a redeem and its UPDATE. *)
(* Violated: the expiry is tested on the row read, against one reading of  *)
(* the clock; used_at is a later reading, written without a condition.     *)
C23_UsedBeforeExpiry ==
    \A r \in codes : r.used_at # NULL => r.used_at <= r.expires_at

(* C24 (as stated): a row is written at most once: used_at goes from unset *)
(* to set by one redemption and is never written again, in any             *)
(* interleaving of redeem calls.                                           *)
(* Violated: the UPDATE has no `used_at IS NULL` condition, the second of  *)
(* two overlapping redeems overwrites the used_at of the first.            *)
C24_UsedAtWrittenOnce ==
    [][\A r \in codes : r.used_at # NULL =>
          \A x \in codes' : x.id = r.id => x.used_at = r.used_at]_vars

(* the SELECT of a redeem call of p                                        *)
SelectStep(p) == vproc[p].pc \in {"idle", "done"} /\ vproc'[p] # vproc[p]

(* no row is stored for the (user, code, purpose) the call of p is for     *)
NoMatchFor(p) ==
    ~ \E r \in codes : /\ r.user_id = vproc'[p].who /\ r.code = vproc'[p].code
                       /\ r.code_type = vproc'[p].ctype

(* C25: a redeem is for one (user, code, purpose): when no row is stored   *)
(* for that triple, also when the same code value is stored for another    *)
(* user or for the other purpose, it ends with InvalidVerificationCode and *)
(* every stored code is as it was.                                         *)
C25_RedeemScopedToTriple ==
    [][\A p \in Procs :
          (SelectStep(p) /\ NoMatchFor(p)) =>
             /\ vproc'[p].pc = "done"
             /\ vproc'[p].res = "InvalidVerificationCode"
             /\ codes' = codes]_vars

(* a redeem found nothing while the same code value was stored, unused and *)
(* unexpired, for another user and for the other purpose of its own user   *)
C25_Witness ==
    /\ Done(1) /\ ~Found(1) /\ vproc[1].res = "InvalidVerificationCode"
    /\ Matching(1) = {}
    /\ \E r \in codes : /\ r.code = vproc[1].code /\ r.user_id # vproc[1].who
                        /\ r.used_at = NULL /\ r.expires_at >= now
    /\ \E r \in codes : /\ r.code = vproc[1].code /\ r.user_id = vproc[1].who
                        /\ r.code_type # vproc[1].ctype
                        /\ r.used_at = NULL /\ r.expires_at >= now

(* the row is unused and unexpired                                         *)
Live(r) == r.used_at = NULL /\ r.expires_at >= now

(* C26: cleanup_expired_codes deletes only rows whose expires_at is before *)
(* now or whose used_at is more than the retention before now; no step     *)
(* removes a row that is unused and unexpired, so such a code is stored    *)
(* after any number of sweeps, and a redeem that read it unused and ends   *)
(* before its expiry returns Ok with the row stored and marked.            *)
C26_PurgeKeepsLiveCodes ==
    /\ [][\A r \in codes :
             /\ (~ \E x \in codes' : x.id = r.id) =>
                   \/ r.expires_at < now
                   \/ (r.used_at # NULL /\ r.used_at < now - CodeRetention)
             /\ Live(r) =>
                   \E x \in codes' : x.id = r.id /\ x.expires_at = r.expires_at
         ]_vars
    /\ []((Done(1) /\ Found(1) /\ vproc[1].snap.used_at = NULL
            /\ vproc[1].snap.expires_at >= now) =>
              /\ vproc[1].res = "Ok"
              /\ \E r \in codes : r.id = vproc[1].snap.id /\ r.used_at # NULL)

(* a sweep has deleted the first code while the second, unused and expiring *)
(* at this very time, is stored                                            *)
C26_Witness ==
    /\ nextCodeId > 2
    /\ ~ \E r \in codes : r.id = 1
    /\ \E r \in codes : r.id = 2 /\ r.used_at = NULL /\ r.expires_at = now

(* ---------------------------------------------------------------------- *)
(* More properties of the session handlers                                 *)
(* ---------------------------------------------------------------------- *)
(* C27 (as stated): a refresh that returns an error, at the signature      *)
(* check, the validation, the rotation or after the rotation, has left the *)
(* presented record as it was and no new record: it has committed no       *)
(* rotation and no successor of its own is stored, so the old token can be *)
(* presented again without reuse detection.                                *)
(* Violated: an error after rotate_refresh_token is returned while the     *)
(* rotation stays committed.                                               *)
C27_FailedRefreshKeepsSession ==
    \A p \in Procs :
        (Refreshing(p) /\ sproc[p].pc = "done" /\ sproc[p].res # "Ok") =>
            /\ <<sproc[p].rt, sproc[p].new>> \notin rotations
            /\ ~Stored(tokens, sproc[p].new)

(* a login of client p has ended at one of its checks                      *)
LoginRejectedStep(p) ==
    /\ sproc'[p] # sproc[p]
    /\ sproc'[p].op = "login" /\ sproc'[p].res # "Ok"

(* a redeem of an email_verification code of user u has returned Ok and    *)
(* its row is marked                                                       *)
EmailCodeRedeemed(u) ==
    \E p \in Procs :
        /\ Done(p) /\ vproc[p].res = "Ok"
        /\ vproc[p].ctype = "email_verification"
        /\ vproc[p].snap.user_id = u

(* C28: login creates a refresh record only for a user whose address is    *)
(* verified and whose password check passed: every stored record belongs   *)
(* to a verified user, a user becomes verified only by verify_email after  *)
(* a redeem of an email_verification code of that user returned Ok, and a  *)
(* login rejected with EmailNotVerified, InvalidCredentials or for an      *)
(* unknown user creates no record and issues no token.                     *)
C28_SessionOnlyAfterVerification ==
    /\ [](\A r \in tokens :
             users[r.user_id].exists /\ users[r.user_id].email_verified)
    /\ [][\A u \in Users :
             (users'[u].email_verified /\ ~users[u].email_verified) =>
                EmailCodeRedeemed(u)]_vars
    /\ [][\A p \in Procs :
             LoginRejectedStep(p) =>
                /\ sproc'[p].res \in {"UserNotFound", "EmailNotVerified",
                                      "InvalidCredentials"}
                /\ tokens' = tokens /\ creds' = creds /\ nextSid' = nextSid]_vars

(* a login of user 1 was rejected with EmailNotVerified; after             *)
(* verify_email for user 1 a login has created a session                   *)
C28_Witness ==
    /\ sproc[1].op = "login" /\ sproc[1].res = "EmailNotVerified"
    /\ \E p \in Procs : vproc[p].op = "verify_email" /\ vproc[p].res = "Ok"
    /\ \E r \in tokens : r.user_id = 1

(* the reset_password request of p has returned success                    *)
ResetDone(p) ==
    sproc[p].op = "reset_password" /\ sproc[p].pc = "done" /\ sproc[p].res = "Ok"

(* the step taken is the revoke_all_user_tokens of p's reset_password      *)
ResetEndStep(p) ==
    /\ sproc[p].op = "reset_password" /\ sproc[p].pc = "verified"
    /\ sproc'[p].pc = "done"

BlacklistedPresented(p) ==
    /\ SessionIdle(p)
    /\ sproc'[p] # sproc[p]
    /\ sproc'[p].op \in {"logout", "sessions"}
    /\ IsBlacklisted(blacklist, CredOf(sproc'[p].at).access, now)

(* C30 (as stated): an access token that a logout has put on the blacklist *)
(* is not taken again while it is unexpired: a logout or a                 *)
(* get_active_sessions that presents it is rejected, changes nothing and   *)
(* returns no session list.                                                *)
(* Violated: both handlers verify the signature and the expiry only; no    *)
(* handler looks the token up in the blacklist.                            *)
C30_BlacklistedTokenRejected ==
    [][\A p \in Procs :
          BlacklistedPresented(p) =>
             /\ sproc'[p].pc = "done"
             /\ sproc'[p].res # "Ok"
             /\ sproc'[p].sessions = {}
             /\ tokens' = tokens
             /\ blacklist' = blacklist]_vars

(* ---------------------------------------------------------------------- *)
(* Properties of logout on error                                           *)
(* ---------------------------------------------------------------------- *)
(* the logout request of p has returned an error                           *)
LogoutErred(p) ==
    sproc[p].op = "logout" /\ sproc[p].pc = "done" /\ sproc[p].res # "Ok"

(* C31 (as stated): a logout that returns an error, for a missing cookie,  *)
(* an invalid access token, an unreadable body or a failing revoke, has    *)
(* changed neither the blacklist nor any refresh record: the request has   *)
(* not written the blacklist, and the step that returns the error leaves   *)
(* the blacklist and the records as they are.                              *)
(* Violated: the access token is put on the blacklist before the body is   *)
(* read and before the revoke; their errors are returned with the entry    *)
(* in place.                                                               *)
C31_LogoutAllOrNothing ==
    /\ [](\A p \in Procs : LogoutErred(p) => ~sproc[p].wrote)
    /\ [][\A p \in Procs :
             (sproc'[p] # sproc[p] /\ sproc'[p].op = "logout"
              /\ sproc'[p].pc = "done" /\ sproc'[p].res # "Ok") =>
                tokens' = tokens /\ blacklist' = blacklist]_vars
====
